---- MODULE Spec2Model ----
(***************************************************************************)
(* Model of the BreezeAgentFramework orchestration core: the Tool         *)
(* Registry, the ToolExecutor's thread-pool fan-out, and the              *)
(* Orchestrator's route -> rewrite -> plan -> execute -> synthesize        *)
(* pipeline.                                                               *)
(*                                                                         *)
(* Text is a sequence of one-character strings.  A result string of a     *)
(* tool is a record [kind, tool, kw]: its kind tells which branch of      *)
(* ToolRegistry.execute_tool produced it, tool and kw tell for which call. *)
(***************************************************************************)
EXTENDS Integers, Sequences, FiniteSets, TLC

VARIABLES
    registry,           \* ToolRegistry._registry: tool name -> handler
    pc,                 \* position of Orchestrator.aquery_with_history
    question,           \* complex_question, as passed by the caller
    history,            \* sanitized_history
    route,              \* outcome of is_meta_question: "none" | "meta" | "task"
    rewritten,          \* rewritten_question
    plan,               \* execution_plan.plan_items
    answer,             \* value returned to the caller of aquery_with_history
    error,              \* exception that reached the caller ("none" if none)
    modelCalls,         \* number of calls made to the model backend
    entered,            \* pipeline stages entered during the call
    metaReply,          \* text the model returned to handle_meta_conversation
    plannerArg,         \* question argument received by plan_question
    synthArgs,          \* arguments received by synthesize_result
    epc,                \* position of ToolExecutor.execute_plan
    poolCreated,        \* a ThreadPoolExecutor has been constructed
    status,             \* per plan index: "new" | "queued" | "running" | "done"
    futures,            \* per plan index: outcome held by the item's Future
    calls,              \* per plan index: registry / handler invocations made
    execution_results,  \* the list execute_plan builds and returns
    stageCalls,         \* per pipeline stage: model calls issued by the stage
    schemas,            \* the registry's schemas, in the order of its entries
    regLog,             \* the registrations the registry has accepted, in order
    op,                 \* the last operation called directly, with its arguments
    out                 \* what that operation returned or raised

vars == <<registry, pc, question, history, route, rewritten, plan, answer, error,
          modelCalls, entered, metaReply, plannerArg, synthArgs,
          epc, poolCreated, status, futures, calls, execution_results,
          stageCalls, schemas, regLog, op, out>>

\* state of the operations that are called directly
apiVars == <<schemas, regLog, op, out>>

orchVars == <<registry, pc, question, history, route, rewritten, answer, error,
              modelCalls, entered, metaReply, plannerArg, synthArgs,
              stageCalls, schemas, regLog, op, out>>

(***************************************************************************)
(* Bounds                                                                  *)
(***************************************************************************)
\* longest plan built from every kind of plan item
MaxMixedLen == 2
\* longest plan handed to the executor (more items than workers)
MaxPlanLen == 6

\* register_tool calls made on one registry
MaxRegistrations == 3

\* longest raw history handed to sanitize_history directly
MaxHistoryLen == 3

\* largest max_items handed to sanitize_history directly
MaxItemsArg == 3

\* longest used_tools list handed to build_synthesis_prompt directly
MaxUsedTools == 3

\* most chunks the completion backend streams for one request
MaxChunks == 3

\* most answered inputs of one chat session
MaxChatRounds == 2

(***************************************************************************)
(* Text                                                                    *)
(***************************************************************************)
IsSpace(c) == c = " "

RECURSIVE LStrip(_)
LStrip(t) == IF t # <<>> /\ IsSpace(Head(t)) THEN LStrip(Tail(t)) ELSE t

RECURSIVE RStrip(_)
RStrip(t) ==
    IF t # <<>> /\ IsSpace(t[Len(t)]) THEN RStrip(SubSeq(t, 1, Len(t) - 1)) ELSE t

\* str.strip()
Strip(t) == RStrip(LStrip(t))

\* str.upper() on the letters the model uses
UpperChar(c) ==
    CASE c = "m" -> "M" [] c = "e" -> "E" [] c = "t" -> "T" [] c = "a" -> "A"
      [] c = "s" -> "S" [] c = "k" -> "K" [] OTHER -> c

Upper(t) == [i \in 1..Len(t) |-> UpperChar(t[i])]

\* str.startswith(prefix)
StartsWith(t, prefix) ==
    Len(prefix) <= Len(t) /\ SubSeq(t, 1, Len(prefix)) = prefix

\* "k in q" for strings
Contains(t, k) ==
    \E i \in 1..(Len(t) - Len(k) + 1) : SubSeq(t, i, i + Len(k) - 1) = k

Text(t) == [isText |-> TRUE, text |-> t]
\* a question that is not a str (for instance None or a number)
NonText == [isText |-> FALSE, text |-> <<>>]

(***************************************************************************)
(* Conversation Router                                                     *)
(***************************************************************************)
\* sanitize_history(history, max_items=20) as called by the Orchestrator
HISTORY_MAX_ITEMS == 20

\* a conversion that yields nothing for a value that is not a str
StrOfStrOnly(v) == IF v.isStr THEN v.text ELSE <<>>

\* str(v) of a turn field: a str is itself, anything else its rendering
Str(v) == v.text

Lower(r) == CASE r = "USER" -> "user" [] r = "User" -> "user"
              [] r = "SYSTEM" -> "system" [] OTHER -> r

\* a raw turn: role is a str, content a str or another value with its str()
Turn(role, isStr, text) == [role |-> role, content |-> [isStr |-> isStr, text |-> text]]

\* "if len(cleaned) > max_items: cleaned = cleaned[-max_items:]"; the slice
\* [-0:] is the slice [0:], the whole list
LastN(sq, n) ==
    IF Len(sq) > n
    THEN IF n = 0 THEN sq ELSE SubSeq(sq, Len(sq) - n + 1, Len(sq))
    ELSE sq

RECURSIVE Cleaned(_)
Cleaned(h) ==
    IF h = <<>> THEN <<>>
    ELSE LET m == Head(h)
             role == Lower(m.role)
             content == Strip(Str(m.content))
         IN  IF content = <<>> THEN Cleaned(Tail(h))
             ELSE <<[role |-> IF role = "user" THEN "user" ELSE "assistant",
                     content |-> content]>> \o Cleaned(Tail(h))

\* ConversationManager.sanitize_history
SanitizeHistory(h, max_items) == LastN(Cleaned(h), max_items)

\* a sanitized turn seen as a raw turn again: its content is a str
AsRaw(h) == [i \in 1..Len(h) |-> Turn(h[i].role, TRUE, h[i].content)]

\* a sanitizer that cleans the caller's list in place
HistoryCleanedInPlace(h) == AsRaw(Cleaned(h))

\* the caller's list after sanitize_history: the loop only reads m.get(...)
\* and appends new dicts to the new list "cleaned"
HistoryAfterSanitize(h) == h

\* the fixed keyword list of is_meta_question (one keyword stands for the list)
Keywords == { <<"w", "h", "o">> }

HasKeyword(q) == \E k \in Keywords : Contains(q, k)

\* a label compared as the model wrote it
IsMetaLabelExact(label) == StartsWith(label, <<"M", "E", "T", "A">>)

\* label.strip().upper().startswith("META")
IsMetaLabel(label) == StartsWith(Upper(Strip(label)), <<"M", "E", "T", "A">>)

\* ConversationManager.is_meta_question(question) when the model, if asked,
\* answers label: the value returned and the model calls made
IsMeta(text, label) ==
    LET q == Strip(text)
    IN  IF q = <<>> THEN [result |-> FALSE, calls |-> 0]
        ELSE IF HasKeyword(q) THEN [result |-> TRUE, calls |-> 0]
        ELSE [result |-> IsMetaLabel(label), calls |-> 1]

(***************************************************************************)
(* Tool Registry                                                           *)
(***************************************************************************)
\* ThreadPoolExecutor(max_workers=5)
MAX_WORKERS == 5

NoKw == [k \in {} |-> ""]

\* ToolRegistry.__init__: no tool registered
EmptyRegistry == [n \in {} |-> [params |-> {}, does |-> "str"]]

\* The tools registered at start-up: the keyword names each handler's
\* signature accepts and what the handler does when called with them.
DefaultRegistry ==
    [weather |-> [params |-> {"q"}, does |-> "str"],
     wiki    |-> [params |-> {"q"}, does |-> "obj"],
     strict  |-> [params |-> {"q"}, does |-> "ValueError"],
     boom    |-> [params |-> {},    does |-> "Exception"]]

\* the stages of the pipeline that call the model
ModelStages == {"classify", "meta_answer", "rewrite", "plan", "synthesis"}

NoStageCalls == [st \in ModelStages |-> 0]

\* one more model call issued by a stage
Called(sc, st) == [sc EXCEPT ![st] = @ + 1]

\* a failed model call caught and the stage run again
RetryAfterModelFailure(stage_pc) == stage_pc

\* no stage catches an exception of the model call: it leaves the pipeline
AfterModelFailure(stage_pc) == "raised"

NoOp == [name |-> "none"]

NoError == [kind |-> "none", stage |-> "none"]
Raised(kind, stage) == [kind |-> kind, stage |-> stage]

\* a flag taken as set whatever its value
TruthyAlways(v) == TRUE

\* "if raise_on_error": the truth value of the flag
Truthy(v) == v \notin {"", "False"}

Ret(kind, tool, kw) == [t |-> "ret", kind |-> kind, tool |-> tool, kw |-> kw]
Exc(kind, tool, kw) == [t |-> "exc", kind |-> kind, tool |-> tool, kw |-> kw]
Pending == [t |-> "pending", kind |-> "", tool |-> "", kw |-> NoKw]

\* handler(**kwargs): a keyword the signature lacks, or a missing one, is a
\* TypeError; otherwise the handler's own behaviour.
HandlerCall(h, kwargs) ==
    IF DOMAIN kwargs # h.params THEN "TypeError" ELSE h.does

\* ToolRegistry.execute_tool(tool_name, /, *, raise_on_error=False, **kwargs)
\* called as execute_tool(tool_name, **kw): a key named raise_on_error binds
\* to the keyword-only flag, the other keys are the handler's kwargs.
ExecuteTool(reg, tool_name, kw) ==
    LET raise_on_error == IF "raise_on_error" \in DOMAIN kw
                          THEN Truthy(kw["raise_on_error"]) ELSE FALSE
        kwargs == [k \in DOMAIN kw \ {"raise_on_error"} |-> kw[k]]
    IN  IF tool_name \notin DOMAIN reg
        THEN IF raise_on_error THEN Exc("KeyError", tool_name, kwargs)
                               ELSE Ret("NotFound", tool_name, kwargs)
        ELSE LET r == HandlerCall(reg[tool_name], kwargs)
             IN  CASE r = "TypeError" ->
                        IF raise_on_error THEN Exc("TypeError", tool_name, kwargs)
                        ELSE Ret("ArgumentError", tool_name, kwargs)
                   [] r = "ValueError" ->
                        IF raise_on_error THEN Exc("ValueError", tool_name, kwargs)
                        ELSE Ret("ValidationError", tool_name, kwargs)
                   [] r = "Exception" ->
                        \* "raise msg" raises a str: itself a TypeError
                        IF raise_on_error THEN Exc("TypeError", tool_name, kwargs)
                        ELSE Ret("HandlerError", tool_name, kwargs)
                   [] r = "str" -> Ret("text", tool_name, kwargs)
                   [] OTHER -> Ret("json", tool_name, kwargs)

\* a handler called whatever the lookup found
HandlerReachedAlways(reg, tool_name) == TRUE

\* the handler is reached only for a registered name
HandlerReached(reg, tool_name) == tool_name \in DOMAIN reg

\* "callable(handler)"
Callable(handler) == handler.does # "notcallable"

\* the name check left out
AnyNameValid(name, handler) == Callable(handler)

\* register_tool's checks: "not name" and "not callable(handler)"
ValidRegistration(name, handler) == name # "" /\ Callable(handler)

\* a registry that keeps the entry it already has for the name
StoreEntryKeepFirst(reg, name, handler) == reg @@ (name :> handler)

\* "self._registry[name] = {...}": the handler kept for the name
StoreEntry(reg, name, handler) == (name :> handler) @@ reg

\* the schema register_tool builds
Schema(name, description, parameters) ==
    [name |-> name, description |-> description, parameters |-> parameters]

\* "self._registry[name] = {...}": the schema kept for the name; a dict
\* keeps the position of a key it already has and appends a new key
StoreSchema(ss, schema) ==
    IF \E i \in DOMAIN ss : ss[i].name = schema.name
    THEN [i \in DOMAIN ss |-> IF ss[i].name = schema.name THEN schema ELSE ss[i]]
    ELSE Append(ss, schema)

\* "self._registry.get(tool_name)": the handler of the entry, if any
NoHandler == [params |-> {}, does |-> "none"]
Lookup(reg, tool_name) ==
    IF tool_name \in DOMAIN reg THEN reg[tool_name] ELSE NoHandler

\* one register_tool call: its four keyword arguments
Registration(name, description, parameters, handler) ==
    [name |-> name, schema |-> Schema(name, description, parameters),
     handler |-> handler]

\* the schemas and the accepted registrations behind DefaultRegistry
DefaultSchemas ==
    <<Schema("weather", "d1", {"q"}), Schema("wiki", "d2", {"q"}),
      Schema("strict", "d1", {"q"}), Schema("boom", "d2", {})>>

DefaultLog ==
    [i \in 1..Len(DefaultSchemas) |->
        [name |-> DefaultSchemas[i].name, schema |-> DefaultSchemas[i],
         handler |-> DefaultRegistry[DefaultSchemas[i].name]]]

\* the register_tool calls tried: two names registered with handlers of every
\* behaviour, an empty name and handlers that are not callable
RegisterCalls ==
    { Registration("a", "d1", {"q"}, [params |-> {"q"}, does |-> "str"]),
      Registration("a", "d2", {"q"}, [params |-> {"q"}, does |-> "obj"]),
      Registration("a", "d1", {}, [params |-> {}, does |-> "Exception"]),
      Registration("b", "d1", {"q"}, [params |-> {"q"}, does |-> "ValueError"]),
      Registration("b", "d2", {"q"}, [params |-> {"q"}, does |-> "TypeError"]),
      Registration("b", "d2", {"q"}, [params |-> {"q"}, does |-> "str"]),
      Registration("", "d1", {"q"}, [params |-> {"q"}, does |-> "str"]),
      Registration("a", "d2", {"q"}, [params |-> {}, does |-> "notcallable"]),
      Registration("", "d2", {}, [params |-> {}, does |-> "notcallable"]) }

\* the execute_tool calls tried: registered and unregistered names, the
\* raise_on_error flag omitted, false or true, matching and missing kwargs
InvokeNames == {"a", "b", "ghost"}
InvokeFlags == {"absent", "False", "True"}
InvokeKwargs == {NoKw, "q" :> "v1"}

\* the keywords of the call execute_tool(tool_name, raise_on_error=..., **kwargs)
CallKeywords(flag, kwargs) ==
    IF flag = "absent" THEN kwargs ELSE ("raise_on_error" :> flag) @@ kwargs

(***************************************************************************)
(* Plans                                                                   *)
(***************************************************************************)
PlanItem(name, isMapping, kw) ==
    [tool_name |-> name, arguments |-> [isMapping |-> isMapping, kw |-> kw]]

ArgNames == <<"v1", "v2", "v3", "v4", "v5", "v6", "v7", "v8", "v9">>

\* one plan item of every kind the executor distinguishes
ItemKinds ==
    { PlanItem("weather", TRUE, "q" :> "v1"),
      PlanItem("wiki", TRUE, "q" :> "v2"),
      PlanItem("boom", TRUE, NoKw),
      PlanItem("strict", TRUE, "q" :> "v1"),
      PlanItem("ghost", TRUE, "q" :> "v1"),
      PlanItem("weather", TRUE, "zz" :> "v1"),
      PlanItem("weather", FALSE, NoKw),
      PlanItem("", TRUE, "q" :> "v1"),
      PlanItem(" ", TRUE, "q" :> "v1"),
      PlanItem("ghost", TRUE, "raise_on_error" :> "True") }

SeqsUpTo(S, n) == UNION {[1..k -> S] : k \in 0..n}

MixedPlans == SeqsUpTo(ItemKinds, MaxMixedLen)

\* n distinct successful items
LongPlan(n) == [i \in 1..n |-> PlanItem("weather", TRUE, "q" :> ArgNames[i])]

\* the same with a first item whose arguments are not a mapping
LongPlanFailFirst(n) ==
    [i \in 1..n |-> IF i = 1 THEN PlanItem("weather", FALSE, NoKw)
                    ELSE PlanItem("weather", TRUE, "q" :> ArgNames[i])]

LongPlans == {LongPlan(n) : n \in (MaxMixedLen + 1)..MaxPlanLen}
             \cup {LongPlanFailFirst(n) : n \in (MaxMixedLen + 1)..MaxPlanLen}

ExecPlans == MixedPlans \cup LongPlans

(***************************************************************************)
(* Inputs of one answer call                                               *)
(***************************************************************************)
Questions ==
    { NonText,
      Text(<<>>),
      Text(<<" ">>),
      Text(<<"w", "h", "o">>),
      Text(<<"q", "w", "h", "o", " ">>),
      Text(<<"q">>),
      Text(<<" ", "q", "w">>) }

RawHistories ==
    { <<>>,
      <<Turn("USER", TRUE, <<"h", "i">>), Turn("system", TRUE, <<" ">>),
        Turn("system", TRUE, <<"o", "k", " ">>)>> }

\* what the model may answer to the META/TASK question
LabelReplies == { <<"M", "E", "T", "A">>, <<" ", "m", "e", "t", "a", "!">>,
                  <<"T", "A", "S", "K">>, <<>> }

\* what the model may answer to a chat or completion request
TextReplies == { <<>>, <<" ">>, <<"r", " ">> }

\* a tool-call directive of the model as an object: with or without a
\* function attribute
Directive(hasFunction, item) ==
    [hasFunction |-> hasFunction, function |-> item, isDict |-> FALSE]

\* a tool-call directive as a dict {"function": {"name": ..., "arguments":
\* ...}}, the form in which Message.tool_calls hands on what the parser of
\* the generated text produced: a dict has no attribute "function"
DictDirective(item) ==
    [hasFunction |-> FALSE, function |-> item, isDict |-> TRUE]

DirectiveKinds ==
    {Directive(TRUE, item) : item \in ItemKinds}
    \cup {Directive(FALSE, PlanItem("weather", TRUE, "q" :> "v1"))}
    \cup {DictDirective(PlanItem("wiki", TRUE, "q" :> "v2"))}

ToolCallReplies == SeqsUpTo(DirectiveKinds, MaxMixedLen)

\* PlanningManager._parse_execution_plan
RECURSIVE ParseExecutionPlan(_)
ParseExecutionPlan(tool_calls) ==
    IF tool_calls = <<>> THEN <<>>
    ELSE IF Head(tool_calls).hasFunction
         THEN <<Head(tool_calls).function>> \o ParseExecutionPlan(Tail(tool_calls))
         ELSE ParseExecutionPlan(Tail(tool_calls))

(***************************************************************************)
(* ToolExecutor                                                            *)
(***************************************************************************)
\* the name check left out
NameNeverMissing(tool_name) == FALSE

\* "if not tool_name": None or the empty string
NameMissing(tool_name) == tool_name = ""

\* ToolExecutor._execute_single_tool(plan_item, index)
ExecuteSingleTool(reg, item) ==
    IF NameMissing(item.tool_name)
    THEN Ret("NameMissing", "", NoKw)
    ELSE IF ~item.arguments.isMapping
         THEN Exc("TypeError", item.tool_name, NoKw)   \* "**parameters" needs a mapping
         ELSE LET r == ExecuteTool(reg, item.tool_name, item.arguments.kw)
              IN  r     \* str(result) of a str is the str

\* invocations _execute_single_tool makes for an item
CallsOf(reg, item) ==
    IF NameMissing(item.tool_name) \/ ~item.arguments.isMapping
    THEN [registry |-> 0, handler |-> 0]
    ELSE [registry |-> 1,
          handler |-> IF HandlerReached(reg, item.tool_name) THEN 1 ELSE 0]

NoCalls == [registry |-> 0, handler |-> 0]

N == Len(plan)
Running == {i \in 1..N : status[i] = "running"}

\* the emptiness check left out: every plan enters the pool
PlanNeverEmpty(p) == FALSE

\* "if not execution_plan.plan_items"
PlanIsEmpty(p) == p = <<>>

\* a loop that awaits right after the first submission
AnySubmitted(st) == \E i \in DOMAIN st : st[i] # "new"

\* the list comprehension has submitted every item
AllSubmitted(st) == \A i \in DOMAIN st : st[i] # "new"

\* an unbounded pool: one thread per work item
WorkerAlwaysFree(running) == TRUE

\* a worker thread is free to take the next work item
WorkerFree(running) == Cardinality(running) < MAX_WORKERS

\* a result that never becomes available to the collecting loop
FutureNeverFinished(s) == FALSE

\* future.result() returns or raises only once the future is finished
FutureFinished(s) == s = "done"

\* shutdown(wait=False): the with block is left without joining the workers
ShutdownNoWait(st) == TRUE

\* ThreadPoolExecutor.__exit__: shutdown(wait=True) joins every worker
ShutdownComplete(st) == \A i \in DOMAIN st : st[i] = "done"

\* execute_plan lines 42-48: empty plan returns [], otherwise enter the pool
ExecCheck ==
    /\ epc = "check"
    /\ IF PlanIsEmpty(plan)
       THEN /\ epc' = "returned"
            /\ UNCHANGED poolCreated
       ELSE /\ epc' = "submit"
            /\ poolCreated' = TRUE
    /\ execution_results' = <<>>
    /\ UNCHANGED <<orchVars, plan, status, futures, calls>>

\* executor.submit(self._execute_single_tool, plan_item, i), in plan order
Submit ==
    /\ epc = "submit"
    /\ \E i \in 1..N :
          /\ status[i] = "new"
          /\ \A j \in 1..(i - 1) : status[j] # "new"
          /\ status' = [status EXCEPT ![i] = "queued"]
    /\ epc' = IF AllSubmitted(status') THEN "collect" ELSE "submit"
    /\ UNCHANGED <<orchVars, plan, poolCreated, futures, calls, execution_results>>

\* a pool worker takes the oldest queued work item
WorkerStart ==
    /\ poolCreated
    /\ WorkerFree(Running)
    /\ \E i \in 1..N :
          /\ status[i] = "queued"
          /\ \A j \in 1..(i - 1) : status[j] # "queued"
          /\ status' = [status EXCEPT ![i] = "running"]
    /\ UNCHANGED <<orchVars, plan, epc, poolCreated, futures, calls, execution_results>>

\* the worker runs _execute_single_tool to its end and sets the Future
WorkerFinish ==
    /\ \E i \in Running :
          /\ status' = [status EXCEPT ![i] = "done"]
          /\ futures' = [futures EXCEPT ![i] = ExecuteSingleTool(registry, plan[i])]
          /\ calls' = [calls EXCEPT ![i] = CallsOf(registry, plan[i])]
    /\ UNCHANGED <<orchVars, plan, epc, poolCreated, execution_results>>

\* "for future in futures: execution_results.append(future.result())"
Collect ==
    /\ epc = "collect"
    /\ Len(execution_results) < N
    /\ LET k == Len(execution_results) + 1
       IN  /\ FutureFinished(status[k])
           /\ IF futures[k].t = "exc"
              THEN /\ epc' = "unwind"
                   /\ UNCHANGED execution_results
              ELSE /\ execution_results' = Append(execution_results, futures[k])
                   /\ UNCHANGED epc
    /\ UNCHANGED <<orchVars, plan, poolCreated, status, futures, calls>>

\* leaving the with block: shutdown(wait=True), then return or re-raise
\* (an exception of future.result() propagates to the caller of execute_plan)
ExecExit ==
    /\ ShutdownComplete(status)
    /\ \/ /\ epc = "collect"
          /\ Len(execution_results) = N
          /\ epc' = "returned"
          /\ UNCHANGED <<pc, error>>
       \/ /\ epc = "unwind"
          /\ epc' = "raised"
          /\ pc' = IF pc = "executing" THEN "raised" ELSE pc
          /\ error' = Raised(futures[Len(execution_results) + 1].kind, "executor")
    /\ UNCHANGED <<apiVars, stageCalls, registry, question, history, route, rewritten, answer,
                   modelCalls, entered, metaReply, plannerArg, synthArgs,
                   plan, poolCreated, status, futures, calls, execution_results>>

(***************************************************************************)
(* Orchestrator.aquery_with_history                                        *)
(***************************************************************************)
Blank(t) == Strip(t) = <<>>

\* the early return left out: a meta question falls through to the pipeline
NeverTakesMetaPath(isMeta) == FALSE

\* "if self.conversation_manager.is_meta_question(...): return handle_meta..."
TakesMetaPath(isMeta) == isMeta

\* the question plan_question is called with
PlannerQuestion(original, rewritten_question) == rewritten_question

\* the rewritten question echoed into synthesis
SynthQuestionRewritten(original, rewritten_question) == rewritten_question

\* the question synthesize_result is called with
SynthQuestion(original, rewritten_question) == original

\* "used_tools = [item.tool_name for item in execution_plan.plan_items]"
UsedTools(items) == [i \in 1..Len(items) |-> items[i].tool_name]

\* QueryRewriter.rewrite_query: a blank completion falls back to the query
RewriteResult(completion, query) ==
    IF completion = <<>> \/ Strip(completion) = <<>> THEN query ELSE completion

\* isinstance check, then sanitize_history (lines 102-106)
Answer ==
    /\ pc = "idle"
    /\ \E q \in Questions, h \in RawHistories :
          /\ question' = q
          /\ IF ~q.isText
             THEN /\ pc' = "raised"
                  /\ error' = Raised("ValueError", "orchestrator")
                  /\ UNCHANGED history
             ELSE /\ pc' = "route"
                  /\ history' = SanitizeHistory(h, HISTORY_MAX_ITEMS)
                  /\ UNCHANGED error
    /\ UNCHANGED <<apiVars, stageCalls, registry, route, rewritten, plan, answer, modelCalls, entered,
                   metaReply, plannerArg, synthArgs, epc, poolCreated, status,
                   futures, calls, execution_results>>

\* ConversationManager.is_meta_question and the branch taken on its result
IsMetaQuestion ==
    /\ pc = "route"
    /\ LET q == Strip(question.text)
       IN  IF q = <<>>
           THEN /\ route' = "task"
                /\ pc' = IF TakesMetaPath(FALSE) THEN "meta" ELSE "rewrite"
                /\ UNCHANGED <<stageCalls, modelCalls, error>>
           ELSE IF HasKeyword(q)
           THEN /\ route' = "meta"
                /\ pc' = IF TakesMetaPath(TRUE) THEN "meta" ELSE "rewrite"
                /\ UNCHANGED <<stageCalls, modelCalls, error>>
           ELSE /\ modelCalls' = modelCalls + 1
                /\ stageCalls' = Called(stageCalls, "classify")
                /\ \/ /\ pc' = AfterModelFailure("route")
                      /\ error' = Raised("ModelUnavailable", "router")
                      /\ UNCHANGED route
                   \/ \E label \in LabelReplies :
                         /\ route' = IF IsMetaLabel(label) THEN "meta" ELSE "task"
                         /\ pc' = IF TakesMetaPath(IsMetaLabel(label))
                                  THEN "meta" ELSE "rewrite"
                         /\ UNCHANGED error
    /\ UNCHANGED <<apiVars, registry, question, history, rewritten, plan, answer, entered,
                   metaReply, plannerArg, synthArgs, epc, poolCreated, status,
                   futures, calls, execution_results>>

\* ConversationManager.handle_meta_conversation, whose result answer returns
HandleMetaConversation ==
    /\ pc = "meta"
    /\ modelCalls' = modelCalls + 1
    /\ stageCalls' = Called(stageCalls, "meta_answer")
    /\ \/ /\ pc' = AfterModelFailure("meta")
          /\ error' = Raised("ModelUnavailable", "router")
          /\ UNCHANGED <<metaReply, answer>>
       \/ \E reply \in TextReplies :
             /\ metaReply' = reply
             /\ answer' = Strip(reply)
             /\ pc' = "done"
             /\ UNCHANGED error
    /\ UNCHANGED <<apiVars, registry, question, history, route, rewritten, plan, entered,
                   plannerArg, synthArgs, epc, poolCreated, status, futures,
                   calls, execution_results>>

\* QueryRewriter.rewrite_query(sanitized_history, complex_question)
RewriteQuery ==
    /\ pc = "rewrite"
    /\ entered' = entered \cup {"rewriter"}
    /\ modelCalls' = modelCalls + 1
    /\ stageCalls' = Called(stageCalls, "rewrite")
    /\ \/ /\ pc' = AfterModelFailure("rewrite")
          /\ error' = Raised("ModelUnavailable", "rewriter")
          /\ UNCHANGED rewritten
       \/ \E completion \in TextReplies :
             /\ rewritten' = RewriteResult(completion, question.text)
             /\ pc' = "plan"
             /\ UNCHANGED error
    /\ UNCHANGED <<apiVars, registry, question, history, route, plan, answer, metaReply,
                   plannerArg, synthArgs, epc, poolCreated, status, futures,
                   calls, execution_results>>

\* a planner that asks the model even with nothing to choose from
SchemasNeverEmpty(tool_schemas) == FALSE

\* "if not tool_schemas" on get_llm_tool_schemas()
NoToolSchemas(tool_schemas) == tool_schemas = <<>>

\* PlanningManager.plan_question(rewritten_question, sanitized_history)
PlanQuestion ==
    /\ pc = "plan"
    /\ entered' = entered \cup {"planner"}
    /\ plannerArg' = PlannerQuestion(question.text, rewritten)
    /\ IF Blank(plannerArg')
       THEN /\ pc' = "raised"
            /\ error' = Raised("ValueError", "planner")
            /\ UNCHANGED <<stageCalls, modelCalls, plan, status, futures, calls>>
       ELSE IF NoToolSchemas(schemas)
       THEN /\ plan' = <<>>
            /\ status' = <<>>
            /\ futures' = <<>>
            /\ calls' = <<>>
            /\ pc' = "execute"
            /\ UNCHANGED <<stageCalls, modelCalls, error>>
       ELSE /\ modelCalls' = modelCalls + 1
            /\ stageCalls' = Called(stageCalls, "plan")
            /\ \/ /\ pc' = AfterModelFailure("plan")
                  /\ error' = Raised("ModelUnavailable", "planner")
                  /\ UNCHANGED <<plan, status, futures, calls>>
               \/ \E tool_calls \in ToolCallReplies :
                     /\ plan' = ParseExecutionPlan(tool_calls)
                     /\ status' = [i \in 1..Len(plan') |-> "new"]
                     /\ futures' = [i \in 1..Len(plan') |-> Pending]
                     /\ calls' = [i \in 1..Len(plan') |-> NoCalls]
                     /\ pc' = "execute"
                     /\ UNCHANGED error
    /\ UNCHANGED <<apiVars, registry, question, history, route, rewritten, answer, metaReply,
                   synthArgs, epc, poolCreated, execution_results>>

\* "results = self.tool_executor.execute_plan(execution_plan)": the call
ExecutePlanCall ==
    /\ pc = "execute"
    /\ pc' = "executing"
    /\ entered' = entered \cup {"executor"}
    /\ epc' = "check"
    /\ UNCHANGED <<apiVars, stageCalls, registry, question, history, route, rewritten, plan, answer,
                   error, modelCalls, metaReply, plannerArg, synthArgs,
                   poolCreated, status, futures, calls, execution_results>>

\* SynthesisGenerator.synthesize_result(complex_question, results, used_tools)
Synthesize ==
    /\ pc = "executing"
    /\ epc = "returned"
    /\ entered' = entered \cup {"synthesizer"}
    /\ synthArgs' = [question |-> SynthQuestion(question.text, rewritten),
                     results |-> execution_results,
                     used_tools |-> UsedTools(plan)]
    /\ IF Blank(synthArgs'.question)
       THEN /\ pc' = "raised"
            /\ error' = Raised("ValueError", "synthesizer")
            /\ UNCHANGED <<stageCalls, modelCalls, answer>>
       ELSE /\ modelCalls' = modelCalls + 1
            /\ stageCalls' = Called(stageCalls, "synthesis")
            /\ \/ /\ pc' = AfterModelFailure("executing")
                  /\ error' = Raised("ModelUnavailable", "synthesizer")
                  /\ UNCHANGED answer
               \/ \E reply \in TextReplies :
                     /\ answer' = reply
                     /\ pc' = "done"
                     /\ UNCHANGED error
    /\ UNCHANGED <<apiVars, registry, question, history, route, rewritten, plan, metaReply,
                   plannerArg, epc, poolCreated, status, futures, calls,
                   execution_results>>

Init ==
    /\ registry \in {DefaultRegistry, EmptyRegistry}
    /\ pc = "idle"
    /\ question = Text(<<>>)
    /\ history = <<>>
    /\ route = "none"
    /\ rewritten = <<>>
    /\ plan = <<>>
    /\ answer = <<>>
    /\ error = NoError
    /\ modelCalls = 0
    /\ entered = {}
    /\ metaReply = <<>>
    /\ plannerArg = <<>>
    /\ synthArgs = [question |-> <<>>, results |-> <<>>, used_tools |-> <<>>]
    /\ epc = "none"
    /\ poolCreated = FALSE
    /\ status = <<>>
    /\ futures = <<>>
    /\ calls = <<>>
    /\ execution_results = <<>>
    /\ stageCalls = NoStageCalls
    /\ schemas = IF registry = DefaultRegistry THEN DefaultSchemas ELSE <<>>
    /\ regLog = IF registry = DefaultRegistry THEN DefaultLog ELSE <<>>
    /\ op = NoOp
    /\ out = NoOp

Next ==
    \/ Answer
    \/ IsMetaQuestion
    \/ HandleMetaConversation
    \/ RewriteQuery
    \/ PlanQuestion
    \/ ExecutePlanCall
    \/ ExecCheck
    \/ Submit
    \/ WorkerStart
    \/ WorkerFinish
    \/ Collect
    \/ ExecExit
    \/ Synthesize

Spec == Init /\ [][Next]_vars

(***************************************************************************)
(* execute_plan called directly with a plan                                *)
(***************************************************************************)
InitExec ==
    /\ registry = DefaultRegistry
    /\ pc = "direct"
    /\ question = Text(<<>>)
    /\ history = <<>>
    /\ route = "none"
    /\ rewritten = <<>>
    /\ plan \in ExecPlans
    /\ answer = <<>>
    /\ error = NoError
    /\ modelCalls = 0
    /\ entered = {}
    /\ metaReply = <<>>
    /\ plannerArg = <<>>
    /\ synthArgs = [question |-> <<>>, results |-> <<>>, used_tools |-> <<>>]
    /\ epc = "check"
    /\ poolCreated = FALSE
    /\ status = [i \in 1..Len(plan) |-> "new"]
    /\ futures = [i \in 1..Len(plan) |-> Pending]
    /\ calls = [i \in 1..Len(plan) |-> NoCalls]
    /\ execution_results = <<>>
    /\ stageCalls = NoStageCalls
    /\ schemas = IF registry = DefaultRegistry THEN DefaultSchemas ELSE <<>>
    /\ regLog = IF registry = DefaultRegistry THEN DefaultLog ELSE <<>>
    /\ op = NoOp
    /\ out = NoOp

NextExec ==
    \/ ExecCheck
    \/ Submit
    \/ WorkerStart
    \/ WorkerFinish
    \/ Collect
    \/ ExecExit

SpecExec == InitExec /\ [][NextExec]_vars

\* the same with the scheduling the code relies on: the calling thread runs
\* on, a free worker takes the oldest queued item, and a tool invocation
\* that has started terminates
SpecExecLive ==
    /\ InitExec
    /\ [][NextExec]_vars
    /\ WF_vars(ExecCheck)
    /\ WF_vars(Submit)
    /\ WF_vars(WorkerStart)
    /\ WF_vars(WorkerFinish)
    /\ WF_vars(Collect)
    /\ WF_vars(ExecExit)

(***************************************************************************)
(* ToolRegistry called directly                                            *)
(***************************************************************************)
pipeVars == <<pc, question, history, route, rewritten, plan, answer, error,
              modelCalls, entered, metaReply, plannerArg, synthArgs, epc,
              poolCreated, status, futures, calls, execution_results,
              stageCalls>>

Idle ==
    /\ pc = "direct"
    /\ question = Text(<<>>)
    /\ history = <<>>
    /\ route = "none"
    /\ rewritten = <<>>
    /\ plan = <<>>
    /\ answer = <<>>
    /\ error = NoError
    /\ modelCalls = 0
    /\ entered = {}
    /\ metaReply = <<>>
    /\ plannerArg = <<>>
    /\ synthArgs = [question |-> <<>>, results |-> <<>>, used_tools |-> <<>>]
    /\ epc = "none"
    /\ poolCreated = FALSE
    /\ status = <<>>
    /\ futures = <<>>
    /\ calls = <<>>
    /\ execution_results = <<>>
    /\ stageCalls = NoStageCalls

InitRegistry ==
    /\ Idle
    /\ registry = EmptyRegistry
    /\ schemas = <<>>
    /\ regLog = <<>>
    /\ op = NoOp
    /\ out = NoOp

\* ToolRegistry.register_tool(name=, description=, parameters=, handler=)
RegisterTool ==
    /\ Len(regLog) < MaxRegistrations
    /\ \E r \in RegisterCalls :
          /\ op' = [name |-> "register_tool", reg |-> r]
          /\ IF ValidRegistration(r.name, r.handler)
             THEN /\ registry' = StoreEntry(registry, r.name, r.handler)
                  /\ schemas' = StoreSchema(schemas, r.schema)
                  /\ regLog' = Append(regLog, r)
                  /\ out' = [t |-> "ret", kind |-> "None"]
             ELSE /\ out' = [t |-> "exc", kind |-> "ValueError"]
                  /\ UNCHANGED <<registry, schemas, regLog>>
    /\ UNCHANGED pipeVars

\* ToolRegistry.get_llm_tool_schemas()
GetLlmToolSchemas ==
    /\ op' = [name |-> "get_llm_tool_schemas"]
    /\ out' = [t |-> "ret", schemas |-> schemas]
    /\ UNCHANGED <<registry, schemas, regLog>>
    /\ UNCHANGED pipeVars

\* ToolRegistry.execute_tool(tool_name, raise_on_error=flag, **kwargs)
ExecuteToolCall ==
    /\ \E tool_name \in InvokeNames, flag \in InvokeFlags, kwargs \in InvokeKwargs :
          /\ op' = [name |-> "execute_tool", tool |-> tool_name,
                    raise_on_error |-> flag, kwargs |-> kwargs]
          /\ out' = [result |-> ExecuteTool(registry, tool_name,
                                            CallKeywords(flag, kwargs)),
                     handlerCalls |-> IF HandlerReached(registry, tool_name)
                                      THEN 1 ELSE 0,
                     handler |-> Lookup(registry, tool_name)]
    /\ UNCHANGED <<registry, schemas, regLog>>
    /\ UNCHANGED pipeVars

NextRegistry ==
    \/ RegisterTool
    \/ GetLlmToolSchemas
    \/ ExecuteToolCall

SpecRegistry == InitRegistry /\ [][NextRegistry]_vars

(***************************************************************************)
(* PromptManager: the synthesis prompt                                     *)
(***************************************************************************)
\* the elements of a sequence
Range(sq) == {sq[i] : i \in DOMAIN sq}

\* prompt.json as loaded by _load_prompts: the common lines and the expert
\* block of each tool that has one (the file is configuration; two tools
\* with a block and lines that differ from every other part stand for it)
CommonPrompts == <<"common">>
ExpertPrompts == [weather |-> "expert:weather", wiki |-> "expert:wiki"]

\* "你需要整合多個工具的資訊，提供一個完整、親切的完整回答。"
MultiToolInstruction == "integrate"

\* an instruction added as soon as one tool was used
AnyToolUsed(used_tools) == Len(used_tools) > 0

\* "if len(used_tools) > 1"
SeveralToolsUsed(used_tools) == Len(used_tools) > 1

\* the loop "for tool in used_tools: if tool in self.expert_prompts"
RECURSIVE ExpertParts(_)
ExpertParts(used_tools) ==
    IF used_tools = <<>> THEN <<>>
    ELSE (IF Head(used_tools) \in DOMAIN ExpertPrompts
          THEN <<ExpertPrompts[Head(used_tools)], "">> ELSE <<>>)
         \o ExpertParts(Tail(used_tools))

\* PromptManager._compose_expert_synthesis_prompt: the lines joined by "\n"
ComposeExpertSynthesisPrompt(used_tools) ==
    CommonPrompts
    \o (IF SeveralToolsUsed(used_tools) THEN <<MultiToolInstruction, "">> ELSE <<>>)
    \o ExpertParts(used_tools)

\* used_tools as passed: a list, or None
NoTools == [isList |-> FALSE, items |-> <<>>]
Tools(items) == [isList |-> TRUE, items |-> items]

\* PromptManager.build_synthesis_prompt: the instructions, the question and
\* the numbered results, in the order of the template
BuildSynthesisPrompt(original_question, results, used_tools) ==
    [instructions |-> ComposeExpertSynthesisPrompt(
                          IF used_tools.isList THEN used_tools.items ELSE <<>>),
     question |-> original_question,
     results |-> [i \in DOMAIN results |-> <<i, results[i]>>]]

(***************************************************************************)
(* sanitize_history, rewrite_query and is_meta_question called directly    *)
(***************************************************************************)
\* the turns a caller may pass: roles in any case or unknown, content a str
\* (blank or not), a number, None, or nothing at all
TurnKinds ==
    { Turn("USER", TRUE, <<"h", "i">>),
      Turn("system", TRUE, <<" ">>),
      Turn("system", TRUE, <<"o", "k", " ">>),
      Turn("user", FALSE, <<"5">>),
      Turn("assistant", FALSE, <<"N", "o", "n", "e">>),
      Turn("", TRUE, <<>>) }

Histories == SeqsUpTo(TurnKinds, MaxHistoryLen)

QuestionTexts == {q.text : q \in {x \in Questions : x.isText}}

\* the calls made: each operation with its arguments and, where it asks the
\* model, with what the model does (fails, or gives a reply)
SanitizeCalls ==
    {[name |-> "sanitize_history", history |-> h, max_items |-> max_items] :
        h \in Histories, max_items \in 0..MaxItemsArg}

RewriteCalls ==
    {[name |-> "rewrite_query", query |-> query, completion |-> completion,
      failed |-> failed] :
        query \in QuestionTexts, completion \in TextReplies, failed \in BOOLEAN}

IsMetaCalls ==
    {[name |-> "is_meta_question", question |-> q, label |-> label,
      failed |-> failed] :
        q \in QuestionTexts, label \in LabelReplies, failed \in BOOLEAN}

\* tool names with and without an expert block
UsedToolNames == {"weather", "wiki", "ghost"}

PromptCalls ==
    {[name |-> "build_synthesis_prompt", question |-> <<"q">>,
      results |-> [i \in DOMAIN t.items |-> Ret("text", t.items[i], NoKw)],
      used_tools |-> t] :
        t \in {NoTools} \cup {Tools(u) : u \in SeqsUpTo(UsedToolNames, MaxUsedTools)}}

\* the "tool_calls" list of a tool_assisted_query result
ParseCalls ==
    {[name |-> "parse_execution_plan", tool_calls |-> tc] : tc \in ToolCallReplies}

InitPure ==
    /\ Idle
    /\ registry = EmptyRegistry
    /\ schemas = <<>>
    /\ regLog = <<>>
    /\ op \in SanitizeCalls \cup RewriteCalls \cup IsMetaCalls \cup PromptCalls
                \cup ParseCalls
    /\ out = NoOp

\* ConversationManager.sanitize_history(history, max_items), and the same
\* call made again on its result
SanitizeCall ==
    /\ op.name = "sanitize_history"
    /\ out = NoOp
    /\ out' = [result |-> SanitizeHistory(op.history, op.max_items),
               again |-> SanitizeHistory(
                            AsRaw(SanitizeHistory(op.history, op.max_items)),
                            op.max_items),
               history |-> HistoryAfterSanitize(op.history)]
    /\ UNCHANGED <<registry, schemas, regLog, op>>
    /\ UNCHANGED pipeVars

\* QueryRewriter.rewrite_query(history, query): the model call fails or
\* returns a completion
RewriteCall ==
    /\ op.name = "rewrite_query"
    /\ out = NoOp
    /\ out' = IF op.failed
              THEN [t |-> "exc", kind |-> "ModelUnavailable", calls |-> 1]
              ELSE [t |-> "ret", calls |-> 1,
                    result |-> RewriteResult(op.completion, op.query)]
    /\ UNCHANGED <<registry, schemas, regLog, op>>
    /\ UNCHANGED pipeVars

\* ConversationManager.is_meta_question(question): the model, when it is
\* asked, fails or answers a label
IsMetaCall ==
    /\ op.name = "is_meta_question"
    /\ out = NoOp
    /\ out' = IF op.failed /\ IsMeta(op.question, op.label).calls = 1
              THEN [t |-> "exc", kind |-> "ModelUnavailable", calls |-> 1]
              ELSE [t |-> "ret",
                    result |-> IsMeta(op.question, op.label).result,
                    calls |-> IsMeta(op.question, op.label).calls]
    /\ UNCHANGED <<registry, schemas, regLog, op>>
    /\ UNCHANGED pipeVars

\* PromptManager.build_synthesis_prompt(question, results, used_tools)
BuildSynthesisPromptCall ==
    /\ op.name = "build_synthesis_prompt"
    /\ out = NoOp
    /\ out' = [t |-> "ret",
               prompt |-> BuildSynthesisPrompt(op.question, op.results,
                                               op.used_tools)]
    /\ UNCHANGED <<registry, schemas, regLog, op>>
    /\ UNCHANGED pipeVars

\* PlanningManager._parse_execution_plan(result)
ParsePlanCall ==
    /\ op.name = "parse_execution_plan"
    /\ out = NoOp
    /\ out' = [t |-> "ret", plan_items |-> ParseExecutionPlan(op.tool_calls)]
    /\ UNCHANGED <<registry, schemas, regLog, op>>
    /\ UNCHANGED pipeVars

NextPure ==
    \/ ParsePlanCall
    \/ SanitizeCall
    \/ RewriteCall
    \/ IsMetaCall
    \/ BuildSynthesisPromptCall

SpecPure == InitPure /\ [][NextPure]_vars

(***************************************************************************)
(* Streaming: BreezeClient's chunk generator and synthesize_result_stream  *)
(***************************************************************************)
\* "<|use_tool|>", which the backend may deliver split over two chunks
UseToolToken == <<"U1", "U2">>

\* the text of one chunk of the completion stream (empty, plain, blank, or
\* a part of the tool token)
ChunkTexts == { <<>>, <<"a">>, <<" ">>, <<"U1">>, <<"U2">> }

RECURSIVE Concat(_)
Concat(texts) ==
    IF texts = <<>> THEN <<>> ELSE Head(texts) \o Concat(Tail(texts))

\* _create_streaming_chunk(delta, model, finish_reason) as the consumer sees
\* it: delta.content (None when the key is absent), delta.tool_calls, and
\* finish_reason
InitialChunk ==
    [hasContent |-> TRUE, content |-> <<>>, tool_calls |-> FALSE, finish |-> "none"]
TextChunk(delta_text) ==
    [hasContent |-> TRUE, content |-> delta_text, tool_calls |-> FALSE,
     finish |-> "none"]
ToolCallsChunk ==
    [hasContent |-> FALSE, content |-> <<>>, tool_calls |-> TRUE, finish |-> "none"]
FinalChunk(finish_reason) ==
    [hasContent |-> FALSE, content |-> <<>>, tool_calls |-> FALSE,
     finish |-> finish_reason]

\* a generator that keeps streaming text after the tool token
StreamsTextAlways(tool_call_detected) == TRUE

\* "if not tool_call_detected: yield ... {'content': delta_text}"
StreamsText(tool_call_detected) == ~tool_call_detected

\* LLMConnector.single_query_stream(prompt): the chunks of
\* chat_completions_create(stream=True), handed on as they come
SingleQueryStream(chunks) == chunks

\* synthesize_result_stream: "if chunk.choices and chunk.choices[0].delta.content:
\* yield chunk.choices[0].delta.content"
RECURSIVE FragmentsOf(_)
FragmentsOf(chunks) ==
    IF chunks = <<>> THEN <<>>
    ELSE (IF Head(chunks).hasContent /\ Head(chunks).content # <<>>
          THEN <<Head(chunks).content>> ELSE <<>>)
         \o FragmentsOf(Tail(chunks))

\* MRPromptV3.parse_generated_str: the message's content; none when the text
\* holds tool calls
ParsedContent(generated_text, hasToolCalls) ==
    IF hasToolCalls THEN <<>> ELSE generated_text

\* _handle_non_streaming_response and single_query for the same generation:
\* "completion.choices[0].text.strip()", parsed, then "msg.content or ''"
SingleQuery(texts, hasToolCalls) ==
    ParsedContent(Strip(Concat(texts)), hasToolCalls)

\* one streamed request: what the backend streams and whether the parser
\* finds tool calls in the accumulated text
StreamCalls ==
    {[name |-> "stream", chunks |-> c, parsedToolCalls |-> b] :
        c \in SeqsUpTo(ChunkTexts, MaxChunks), b \in BOOLEAN}

InitStream ==
    /\ Idle
    /\ registry = EmptyRegistry
    /\ schemas = <<>>
    /\ regLog = <<>>
    /\ op \in StreamCalls
    /\ out = NoOp

\* the generator's first step: the initial chunk with empty content
StreamOpen ==
    /\ op.name = "stream"
    /\ out = NoOp
    /\ out' = [pc |-> "loop", i |-> 1, accumulated_text |-> <<>>,
               buffer |-> <<>>, tool_call_detected |-> FALSE,
               emitted |-> <<InitialChunk>>,
               fragments |-> FragmentsOf(SingleQueryStream(<<InitialChunk>>)),
               single |-> SingleQuery(op.chunks, op.parsedToolCalls)]
    /\ UNCHANGED <<registry, schemas, regLog, op>>
    /\ UNCHANGED pipeVars

\* one iteration of "for chunk in stream"
StreamChunk ==
    /\ out # NoOp
    /\ out.pc = "loop"
    /\ out.i <= Len(op.chunks)
    /\ LET delta_text == op.chunks[out.i]
           buffer == out.buffer \o delta_text
           detects == Contains(buffer, UseToolToken) /\ ~out.tool_call_detected
           yielded == IF delta_text # <<>> /\ ~detects
                         /\ StreamsText(out.tool_call_detected)
                      THEN <<TextChunk(delta_text)>> ELSE <<>>
       IN  out' = [out EXCEPT
                     !.i = @ + 1,
                     !.accumulated_text = @ \o delta_text,
                     !.buffer = buffer,
                     !.tool_call_detected = @ \/ (delta_text # <<>> /\ detects),
                     !.emitted = @ \o yielded,
                     !.fragments = @ \o FragmentsOf(SingleQueryStream(yielded))]
    /\ UNCHANGED <<registry, schemas, regLog, op>>
    /\ UNCHANGED pipeVars

\* after the loop: the parsed tool calls sent as a single chunk
StreamToolCalls ==
    /\ out # NoOp
    /\ out.pc = "loop"
    /\ out.i > Len(op.chunks)
    /\ op.parsedToolCalls
    /\ out' = [out EXCEPT
                 !.pc = "final",
                 !.emitted = @ \o <<ToolCallsChunk>>,
                 !.fragments = @ \o FragmentsOf(SingleQueryStream(<<ToolCallsChunk>>))]
    /\ UNCHANGED <<registry, schemas, regLog, op>>
    /\ UNCHANGED pipeVars

\* the final chunk with the finish reason, after which the generator ends
StreamFinal ==
    /\ out # NoOp
    /\ \/ out.pc = "final"
       \/ out.pc = "loop" /\ out.i > Len(op.chunks) /\ ~op.parsedToolCalls
    /\ LET last == FinalChunk(IF out.tool_call_detected \/ op.parsedToolCalls
                              THEN "tool_calls" ELSE "stop")
       IN  out' = [out EXCEPT
                     !.pc = "done",
                     !.emitted = @ \o <<last>>,
                     !.fragments = @ \o FragmentsOf(SingleQueryStream(<<last>>))]
    /\ UNCHANGED <<registry, schemas, regLog, op>>
    /\ UNCHANGED pipeVars

NextStream ==
    \/ StreamOpen
    \/ StreamChunk
    \/ StreamToolCalls
    \/ StreamFinal

\* the consumer's for loop asks for the next chunk until the generator ends
SpecStream == InitStream /\ [][NextStream]_vars /\ WF_vars(NextStream)

(***************************************************************************)
(* CLI: the interactive chat loop of run_chat                              *)
(***************************************************************************)
chatVars == <<pc, question, route, rewritten, plan, answer, error,
              modelCalls, entered, metaReply, plannerArg, synthArgs, epc,
              poolCreated, status, futures, calls, execution_results,
              stageCalls, registry, schemas, regLog, op>>

\* str.lower() on the letters the model uses
LowerChar(c) ==
    CASE c = "E" -> "e" [] c = "X" -> "x" [] c = "I" -> "i" [] c = "T" -> "t"
      [] c = "Q" -> "q" [] c = "U" -> "u" [] OTHER -> c

LowerText(t) == [i \in 1..Len(t) |-> LowerChar(t[i])]

\* 'exit', 'quit' and the two-character Chinese word (tui chu)
ExitWords ==
    { <<"e", "x", "i", "t">>, <<"q", "u", "i", "t">>, <<"tui", "chu">> }

\* what the user may type at the prompt
ChatInputs ==
    { <<>>, <<" ">>, <<"h">>, <<" ", "h", " ">>,
      <<"E", "x", "i", "t">>, <<" ", "q", "u", "i", "t">> }

\* what a streamed chunk may be; the empty chunk is falsy
ChatChunks == { <<>>, <<"a">> }

\* what the non-streaming answer may be
ChatReplies == { <<"b">> }

\* the streaming answer: an iterable that yields text fragments and then
\* either ends or raises; raising before the first fragment is what a
\* call of a method the orchestrator does not have does
AqueryWithHistoryStream(user_input, hist) ==
    [fragments : SeqsUpTo(ChatChunks, MaxChunks), raises : BOOLEAN]

\* the non-streaming answer: a reply or an exception
AqueryWithHistory(user_input, hist) ==
    {[t |-> "ret", reply |-> r] : r \in ChatReplies}
        \cup {[t |-> "exc", reply |-> <<>>]}

\* a fallback that keeps the text streamed before the failure
FallbackContinuesReply(full_reply, reply) == full_reply \o reply

\* "full_reply = orchestrator.aquery_with_history(user_input, history)"
FallbackReply(full_reply, reply) == reply

\* the two appends that close a round
HistoryAppend(hist, user_input, full_reply) ==
    hist \o << Turn("user", TRUE, user_input),
               Turn("assistant", TRUE, full_reply) >>

\* answered rounds so far
Rounds == Len(history) \div 2

InitChat ==
    /\ Idle
    /\ registry = EmptyRegistry
    /\ schemas = <<>>
    /\ regLog = <<>>
    /\ op = [name |-> "chat"]
    /\ out = [pc |-> "input", user_input |-> <<>>, full_reply |-> <<>>,
              stream |-> [fragments |-> <<>>, raises |-> FALSE], i |-> 1,
              attempts |-> <<>>, before |-> <<>>]

\* input(...).strip(), the exit words, the blank line, and the call that
\* creates the streaming iterable
ChatInput ==
    /\ op.name = "chat"
    /\ out.pc = "input"
    /\ Rounds < MaxChatRounds
    /\ \E line \in ChatInputs :
         LET user_input == Strip(line)
         IN  IF LowerText(user_input) \in ExitWords
             THEN out' = [out EXCEPT !.pc = "exited",
                                     !.user_input = user_input,
                                     !.attempts = <<>>,
                                     !.before = history]
             ELSE IF user_input = <<>>
             THEN out' = [out EXCEPT !.user_input = user_input,
                                     !.attempts = <<>>,
                                     !.before = history]
             ELSE \E st \in AqueryWithHistoryStream(user_input, history) :
                    out' = [pc |-> "stream", user_input |-> user_input,
                            full_reply |-> <<>>, stream |-> st, i |-> 1,
                            attempts |-> <<"stream">>, before |-> history]
    /\ UNCHANGED history
    /\ UNCHANGED chatVars

\* one iteration of "for chunk in ...": "if chunk: full_reply += chunk"
ChatStreamChunk ==
    /\ op.name = "chat"
    /\ out.pc = "stream"
    /\ out.i <= Len(out.stream.fragments)
    /\ LET chunk == out.stream.fragments[out.i]
       IN  out' = [out EXCEPT
                     !.i = @ + 1,
                     !.full_reply = IF chunk # <<>> THEN @ \o chunk ELSE @]
    /\ UNCHANGED history
    /\ UNCHANGED chatVars

\* the iterable ends: the loop is left and the history is updated
ChatStreamEnd ==
    /\ op.name = "chat"
    /\ out.pc = "stream"
    /\ out.i > Len(out.stream.fragments)
    /\ ~out.stream.raises
    /\ history' = HistoryAppend(history, out.user_input, out.full_reply)
    /\ out' = [out EXCEPT !.pc = "input"]
    /\ UNCHANGED chatVars

\* the iterable raises: "except Exception" starts the non-streaming call
ChatStreamFail ==
    /\ op.name = "chat"
    /\ out.pc = "stream"
    /\ out.i > Len(out.stream.fragments)
    /\ out.stream.raises
    /\ out' = [out EXCEPT !.pc = "fallback",
                          !.attempts = @ \o <<"plain">>]
    /\ UNCHANGED history
    /\ UNCHANGED chatVars

\* the non-streaming call returns and the history is updated, or it raises
\* and the outer "except Exception" prints the error and loops
ChatFallback ==
    /\ op.name = "chat"
    /\ out.pc = "fallback"
    /\ \E r \in AqueryWithHistory(out.user_input, history) :
         IF r.t = "ret"
         THEN LET full_reply == FallbackReply(out.full_reply, r.reply)
              IN  /\ history' = HistoryAppend(history, out.user_input,
                                              full_reply)
                  /\ out' = [out EXCEPT !.pc = "input",
                                        !.full_reply = full_reply]
         ELSE /\ history' = history
              /\ out' = [out EXCEPT !.pc = "input",
                                    !.attempts = @ \o <<"failed">>]
    /\ UNCHANGED chatVars

\* Ctrl-C while an answer is being produced: "except KeyboardInterrupt: break"
ChatInterrupt ==
    /\ op.name = "chat"
    /\ out.pc \in {"stream", "fallback"}
    /\ out' = [out EXCEPT !.pc = "exited"]
    /\ UNCHANGED history
    /\ UNCHANGED chatVars

NextChat ==
    \/ ChatInput
    \/ ChatStreamChunk
    \/ ChatStreamEnd
    \/ ChatStreamFail
    \/ ChatFallback
    \/ ChatInterrupt

SpecChat == InitChat /\ [][NextChat]_vars

(***************************************************************************)
(* Properties                                                              *)
(***************************************************************************)
ExecFinished == epc \in {"returned", "raised"}

ErrorKinds == {"NameMissing", "NotFound", "ArgumentError", "ValidationError",
               "HandlerError"}

\* the item does not produce a tool result: an error string or an exception
ItemFails(reg, item) ==
    LET r == ExecuteSingleTool(reg, item)
    IN  r.t = "exc" \/ r.kind \in ErrorKinds

ToolsInvoked == {i \in DOMAIN calls : calls[i].registry > 0}

\* C1: for every plan of N items and every completion order, execute(plan)
\* returns a list of exactly N strings whose i-th element is the result of
\* plan item i.
C1_ReturnsResultPerIndex ==
    ExecFinished =>
        /\ epc = "returned"
        /\ Len(execution_results) = N
        /\ \A i \in 1..N : execution_results[i] = ExecuteSingleTool(registry, plan[i])

\* Whenever execute(plan) does return, the list has N elements and slot i
\* holds the result of plan item i, whatever the completion order.
ReturnedInPlanOrder ==
    epc = "returned" =>
        /\ Len(execution_results) = N
        /\ \A i \in 1..N : execution_results[i] = ExecuteSingleTool(registry, plan[i])

\* C2: whatever way a plan item fails, execute(plan) does not raise; the
\* failing item's slot holds an error string and every other item is still
\* invoked and its result returned.
C2_FailuresContained ==
    ExecFinished =>
        /\ epc # "raised"
        /\ Len(execution_results) = N
        /\ \A i \in 1..N :
              /\ execution_results[i].t = "ret"
              /\ ItemFails(registry, plan[i]) => execution_results[i].kind \in ErrorKinds

\* C3: execute(plan) is left (by return or by exception) only after every
\* plan item has completed; none is still running, queued or unsubmitted.
C3_ReturnsAfterAllCompleted ==
    ExecFinished => \A i \in 1..N : status[i] = "done"

C3_Witness ==
    /\ epc = "returned"
    /\ N > MAX_WORKERS
    /\ \A i \in 1..N : status[i] = "done"

\* C4 (as claimed): when the first result is awaited, every plan item has
\* begun executing.
C4_AllRunningBeforeAwait ==
    epc = "collect" => \A i \in 1..N : status[i] \in {"running", "done"}

\* C4 (amended): when the first result is awaited, every plan item has been
\* submitted to the pool; an item may still be queued for a worker.
C4_AllSubmittedBeforeAwait ==
    (epc \in {"collect", "unwind"} \/ execution_results # <<>>)
        => \A i \in 1..N : status[i] # "new"

C4_Witness ==
    /\ epc = "collect"
    /\ execution_results = <<>>
    /\ N > MAX_WORKERS
    /\ status[N] = "queued"
    /\ Cardinality(Running) = MAX_WORKERS

\* C5: at every moment at most 5 tool invocations of the plan are in
\* progress, whatever the plan size.
C5_AtMostFiveRunning == Cardinality(Running) <= MAX_WORKERS

C5_Witness ==
    /\ Cardinality(Running) = MAX_WORKERS
    /\ \E i \in 1..N : status[i] = "queued"

\* C6: execute(plan) on a plan with zero items returns the empty list
\* without creating a worker pool and without any tool invocation.
C6_EmptyPlanNoPool ==
    (plan = <<>> /\ epc # "none") =>
        /\ ~poolCreated
        /\ epc \in {"check", "returned"}
        /\ execution_results = <<>>
        /\ ToolsInvoked = {}

C6_Witness == plan = <<>> /\ epc = "returned" /\ ~poolCreated

\* C7: when the Router classifies the question as meta, answer returns the
\* Router's meta answer, and the rewriter, planner, executor and synthesizer
\* are never entered and no tool is invoked.
C7_MetaSkipsPipeline ==
    route = "meta" =>
        /\ entered = {}
        /\ epc = "none"
        /\ ToolsInvoked = {}
        /\ pc \in {"meta", "done", "raised"}
        /\ pc = "done" => answer = Strip(metaReply)

C7_Witness ==
    /\ route = "meta"
    /\ pc = "done"
    /\ answer # <<>>
    /\ DOMAIN registry # {}

\* C8: answer with an invalid question (not text, or empty or blank text)
\* fails with InvalidArgument before any model call or tool invocation.
C8_InvalidQuestionFailsFast ==
    (pc # "idle" /\ (~question.isText \/ Blank(question.text))) =>
        /\ modelCalls = 0
        /\ ToolsInvoked = {}
        /\ pc # "done"
        /\ pc = "raised" => error.kind = "ValueError"

\* C9: on the non-meta path the Planner receives the rewritten question and
\* the Synthesizer receives the caller's original question, the Executor's
\* result strings and the plan items' tool names, both in plan order.
C9_SynthesizerGetsOriginal ==
    /\ "planner" \in entered => plannerArg = rewritten
    /\ "synthesizer" \in entered =>
          /\ synthArgs.question = question.text
          /\ synthArgs.results = execution_results
          /\ Len(synthArgs.results) = Len(plan)
          /\ Len(synthArgs.used_tools) = Len(plan)
          /\ \A i \in 1..Len(plan) :
                /\ synthArgs.results[i] = ExecuteSingleTool(registry, plan[i])
                /\ synthArgs.used_tools[i] = plan[i].tool_name

C9_Witness ==
    /\ pc = "done"
    /\ "synthesizer" \in entered
    /\ rewritten # question.text
    /\ Len(plan) = 2
    /\ plan[1].tool_name # plan[2].tool_name

\* C10: on the non-meta path with a non-empty plan in which every planned
\* tool fails, the Synthesizer is still called with the tools' error strings
\* and no exception reaches the caller because of the tool failures.
C10_AllToolsFailStillSynthesizes ==
    (/\ pc \in {"done", "raised"}
     /\ route = "task"
     /\ ~Blank(question.text)
     /\ plan # <<>>
     /\ \A i \in 1..N : ItemFails(registry, plan[i]))
        => /\ error.stage # "executor"
           /\ "synthesizer" \in entered
           /\ \A i \in 1..N : synthArgs.results[i].kind \in ErrorKinds

\* C11: when a model call of the pipeline (classification, meta answer,
\* rewrite, plan, synthesis) fails, the error reaches answer's caller, nothing
\* of the pipeline runs afterwards, and no stage issues a second model call.
C11_ModelFailurePropagates ==
    /\ [](\A st \in ModelStages : stageCalls[st] <= 1)
    /\ [](error.kind = "ModelUnavailable" => pc = "raised")
    /\ [][error.kind = "ModelUnavailable" => UNCHANGED vars]_vars

C11_Witness ==
    /\ pc = "raised"
    /\ error = Raised("ModelUnavailable", "synthesizer")
    /\ plan # <<>>
    /\ stageCalls = [st \in ModelStages |->
                        IF st = "meta_answer" THEN 0 ELSE 1]

\* the call was execute_tool with the flag absent or false / true
Invoked == op.name = "execute_tool"
Lenient == Invoked /\ op.raise_on_error \in {"absent", "False"}
Strict == Invoked /\ op.raise_on_error = "True"

\* C12: execute_tool for a name that is not registered calls no handler;
\* without raise_on_error it returns the NotFound error string, with
\* raise_on_error it raises instead of returning.
C12_UnregisteredNameNotFound ==
    (Invoked /\ op.tool \notin DOMAIN registry) =>
        /\ out.handlerCalls = 0
        /\ Lenient => out.result = Ret("NotFound", op.tool, op.kwargs)
        /\ Strict => out.result.t = "exc"

C12_Witness ==
    /\ Strict
    /\ op.tool = "b"
    /\ DOMAIN registry = {"a"}
    /\ out.result = Exc("KeyError", "b", op.kwargs)

\* the handler found for the call raised inside its body
HandlerRaised ==
    /\ Invoked
    /\ op.tool \in DOMAIN registry
    /\ DOMAIN op.kwargs = registry[op.tool].params
    /\ registry[op.tool].does \in {"Exception", "ValueError", "TypeError"}

\* C13 as stated: without raise_on_error, a registered handler raising any
\* exception other than an argument-shape mismatch gives the HandlerError string.
C13_AnyExceptionIsHandlerError ==
    (Lenient /\ HandlerRaised) =>
        out.result = Ret("HandlerError", op.tool, op.kwargs)

\* C13 amended: without raise_on_error, an exception raised by a registered
\* handler never propagates; execute_tool returns an error string whose tag
\* is chosen by the exception's type: ValueError gives the validation-failure
\* string, TypeError the argument-error string, any other the HandlerError one.
C13_HandlerExceptionContained ==
    (Lenient /\ HandlerRaised) =>
        /\ out.handlerCalls = 1
        /\ out.result.t = "ret"
        /\ out.result.kind =
              CASE registry[op.tool].does = "ValueError" -> "ValidationError"
                [] registry[op.tool].does = "TypeError" -> "ArgumentError"
                [] OTHER -> "HandlerError"

C13_Witness ==
    /\ Lenient
    /\ HandlerRaised
    /\ op.raise_on_error = "False"
    /\ registry[op.tool].does = "Exception"
    /\ out.result = Ret("HandlerError", "a", NoKw)

\* the last accepted registration of a name
LastRegistration(name) ==
    LET I == {i \in DOMAIN regLog : regLog[i].name = name}
    IN  regLog[CHOOSE i \in I : \A j \in I : j <= i]

RegisteredNames == {regLog[i].name : i \in DOMAIN regLog}

\* C14: after any sequence of register_tool calls the registry has one entry
\* per registered name, the last one registered for it; the schema list has
\* exactly one schema per name, that of the last registration; execute_tool
\* calls the handler registered last.
C14_LastRegistrationWins ==
    /\ DOMAIN registry = RegisteredNames
    /\ Len(schemas) = Cardinality(RegisteredNames)
    /\ \A n \in RegisteredNames :
          /\ registry[n] = LastRegistration(n).handler
          /\ \E i \in DOMAIN schemas :
                /\ schemas[i] = LastRegistration(n).schema
                /\ \A j \in DOMAIN schemas : schemas[j].name = n => j = i
    /\ op.name = "get_llm_tool_schemas" => out.schemas = schemas
    /\ (Invoked /\ op.tool \in RegisteredNames) =>
          /\ out.handlerCalls = 1
          /\ out.handler = LastRegistration(op.tool).handler

C14_Witness ==
    /\ Len(regLog) = 3
    /\ regLog[1].name = "a"
    /\ regLog[2].name = "b"
    /\ regLog[3].name = "a"
    /\ regLog[3].handler # regLog[1].handler
    /\ regLog[3].schema # regLog[1].schema
    /\ Invoked
    /\ op.tool = "a"
    /\ Len(schemas) = 2

\* C15: register_tool with an empty name or a handler that is not callable
\* raises ValueError and leaves the registry as it was: the same entries in
\* the same order with the same handlers and schemas.
C15_InvalidRegistrationRejected ==
    [][(/\ op'.name = "register_tool"
        /\ (op'.reg.name = "" \/ op'.reg.handler.does = "notcallable"))
          => /\ out' = [t |-> "exc", kind |-> "ValueError"]
             /\ registry' = registry
             /\ schemas' = schemas]_vars

C15_Witness ==
    /\ op.name = "register_tool"
    /\ op.reg.name = ""
    /\ op.reg.handler.does = "str"
    /\ out = [t |-> "exc", kind |-> "ValueError"]
    /\ Len(regLog) = 2

\* the call has returned
Sanitized == op.name = "sanitize_history" /\ out # NoOp

\* C16: for every raw history and max_items >= 0, sanitize_history returns at
\* most max_items turns: the last max_items of the history's non-blank turns
\* (all of them when there are fewer), in their order, each with role "user"
\* or "assistant".
C16_KeepsLastMaxItems ==
    Sanitized =>
        LET valid == Cleaned(op.history)
            n == op.max_items
            k == IF Len(valid) > n THEN n ELSE Len(valid)
        IN  /\ Len(out.result) <= n
            /\ out.result = SubSeq(valid, Len(valid) - k + 1, Len(valid))
            /\ \A i \in DOMAIN out.result :
                  out.result[i].role \in {"user", "assistant"}

\* the turns of a history whose content, rendered as a str, is not blank
RenderedNonBlank(h) == {i \in DOMAIN h : Strip(h[i].content.text) # <<>>}
NonStr(h) == {i \in DOMAIN h : ~h[i].content.isStr}

\* C17 as stated: a turn whose content is not a str is dropped like a blank
\* one: the result has as many turns as the history has non-blank str turns
\* (when nothing is cut by max_items).
C17_NonStringDropped ==
    (Sanitized /\ Len(op.history) <= op.max_items) =>
        Len(out.result) =
            Cardinality(RenderedNonBlank(op.history) \ NonStr(op.history))

\* C17 amended: sanitize_history renders every content with str() and drops
\* a turn only when the stripped rendering is empty; a number or None is kept
\* with its rendering as content.
C17_NonStringRendered ==
    (Sanitized /\ Len(op.history) <= op.max_items) =>
        /\ Len(out.result) = Cardinality(RenderedNonBlank(op.history))
        /\ \A i \in NonStr(op.history) :
              \E j \in DOMAIN out.result :
                  out.result[j].content = Strip(op.history[i].content.text)

C17_Witness ==
    /\ Sanitized
    /\ op.max_items = 2
    /\ op.history = <<Turn("user", FALSE, <<"5">>), Turn("system", TRUE, <<" ">>)>>
    /\ out.result = <<[role |-> "user", content |-> <<"5">>]>>

\* C18: sanitize_history is idempotent, sanitize(sanitize(h, m), m) =
\* sanitize(h, m), and leaves the list and the turns it was given as they were.
C18_SanitizeIdempotentAndPure ==
    Sanitized =>
        /\ out.again = out.result
        /\ out.history = op.history

C18_Witness ==
    /\ Sanitized
    /\ op.max_items = 2
    /\ Len(op.history) = 3
    /\ Len(out.result) = 2
    /\ out.again = out.result
    /\ AsRaw(out.result) # SubSeq(op.history, 2, 3)

Rewrote == op.name = "rewrite_query" /\ out # NoOp /\ out.t = "ret"

\* C19: rewrite_query never hands a blank string on: for an empty or
\* whitespace-only completion it returns the question unchanged, otherwise
\* the completion.
C19_RewriteNeverBlank ==
    Rewrote =>
        /\ ~Blank(out.result)
        /\ Blank(op.completion) => out.result = op.query
        /\ ~Blank(op.completion) => out.result = op.completion

Classified == op.name = "is_meta_question" /\ out # NoOp /\ out.t = "ret"

\* C20 as stated: a question containing a keyword is meta without a model
\* call; a non-blank question without keyword costs one model call and is
\* meta iff the model's answer starts with "META".
C20_MetaIffAnswerStartsWithMETA ==
    Classified =>
        /\ HasKeyword(op.question) => (out.result /\ out.calls = 0)
        /\ (~Blank(op.question) /\ ~HasKeyword(op.question)) =>
              /\ out.calls = 1
              /\ out.result = StartsWith(op.label, <<"M", "E", "T", "A">>)

\* C20 amended: as stated, except that the model's answer is compared after
\* its surrounding whitespace is removed and its letters are upper-cased.
C20_MetaIffNormalizedAnswerStartsWithMETA ==
    Classified =>
        /\ HasKeyword(op.question) => (out.result /\ out.calls = 0)
        /\ (~Blank(op.question) /\ ~HasKeyword(op.question)) =>
              /\ out.calls = 1
              /\ out.result = StartsWith(Upper(Strip(op.label)),
                                         <<"M", "E", "T", "A">>)

C20_Witness ==
    /\ Classified
    /\ op.question = <<" ", "q", "w">>
    /\ op.label = <<" ", "m", "e", "t", "a", "!">>
    /\ out.result
    /\ out.calls = 1

\* C21: plan_question makes no model call and lets no tool run when its
\* question is blank or when no tool is registered: the blank question
\* raises ValueError, the empty registry gives a plan with zero items.
C21_PlanShortCircuits ==
    "planner" \in entered =>
        /\ Blank(plannerArg) =>
              /\ pc = "raised"
              /\ error = Raised("ValueError", "planner")
              /\ stageCalls["plan"] = 0
              /\ ToolsInvoked = {}
        /\ (~Blank(plannerArg) /\ schemas = <<>>) =>
              /\ error.stage # "planner"
              /\ plan = <<>>
              /\ stageCalls["plan"] = 0
              /\ ToolsInvoked = {}

C21_Witness ==
    /\ pc = "done"
    /\ "planner" \in entered
    /\ ~Blank(plannerArg)
    /\ schemas = <<>>
    /\ plan = <<>>
    /\ execution_results = <<>>

PromptBuilt == op.name = "build_synthesis_prompt" /\ out # NoOp

\* C22: the synthesis prompt has the "integrate several sources" instruction
\* exactly when more than one tool name was used, and the expert block of a
\* tool exactly when the tool was used and has a block; a used name without
\* a block adds nothing and raises nothing.
C22_PromptInstructions ==
    PromptBuilt =>
        LET used == op.used_tools.items
            parts == Range(out.prompt.instructions)
        IN  /\ out.t = "ret"
            /\ MultiToolInstruction \in parts <=> Len(used) > 1
            /\ \A tool \in DOMAIN ExpertPrompts :
                  ExpertPrompts[tool] \in parts <=> tool \in Range(used)
            /\ parts \subseteq Range(CommonPrompts) \cup {MultiToolInstruction, ""}
                              \cup Range(ExpertPrompts)

C22_Witness ==
    /\ PromptBuilt
    /\ op.used_tools = Tools(<<"ghost", "weather">>)
    /\ out.prompt.instructions =
          <<"common", "integrate", "", "expert:weather", "">>

StreamEnded == out # NoOp /\ out.pc = "done"

\* C23: for the same generation of the model, the fragments yielded by
\* synthesize_result_stream, concatenated, are the string synthesize_result
\* returns.
C23_StreamConcatEqualsResult ==
    StreamEnded => Concat(out.fragments) = out.single

\* the chunks of the stream so far
Emitted == IF out = NoOp THEN <<>> ELSE out.emitted

\* the stream text up to, not including, the chunk that completes the token
RECURSIVE BeforeToken(_, _)
BeforeToken(texts, seen) ==
    IF texts = <<>> THEN <<>>
    ELSE IF Contains(seen \o Head(texts), UseToolToken) THEN <<>>
    ELSE Head(texts) \o BeforeToken(Tail(texts), seen \o Head(texts))

PlanParsed == op.name = "parse_execution_plan" /\ out # NoOp

\* the directives that name a function, as plan items, in the model's order
RECURSIVE NamedDirectives(_)
NamedDirectives(tool_calls) ==
    IF tool_calls = <<>> THEN <<>>
    ELSE (IF Head(tool_calls).hasFunction \/ Head(tool_calls).isDict
          THEN <<Head(tool_calls).function>> ELSE <<>>)
         \o NamedDirectives(Tail(tool_calls))

\* C25: the plan is made of exactly the model's tool-call directives that
\* carry a function name, in the model's order, each with the directive's
\* name and argument map as they are; the others are skipped, nothing is
\* checked against the registry, and an unregistered name gives a NotFound
\* error string when executed.
C25_PlanIsNamedDirectives ==
    PlanParsed =>
        /\ out.t = "ret"
        /\ out.plan_items = NamedDirectives(op.tool_calls)
        /\ \A i \in DOMAIN out.plan_items :
              LET item == out.plan_items[i]
              IN  (item.tool_name = "ghost" /\ item.arguments.isMapping
                   /\ "raise_on_error" \notin DOMAIN item.arguments.kw) =>
                    ExecuteSingleTool(DefaultRegistry, item).kind = "NotFound"

\* a tool name that is empty or only whitespace
BlankName(i) == plan[i].tool_name \in {"", " "}

\* C26 as stated: an item whose tool name is missing or blank (empty or only
\* whitespace) gets the literal error string and the registry is not called
\* for it; the other items are executed as usual.
C26_BlankNameNotInvoked ==
    \A i \in 1..N :
        status[i] = "done" =>
            IF BlankName(i)
            THEN futures[i] = Ret("NameMissing", "", NoKw) /\ calls[i] = NoCalls
            ELSE futures[i] = ExecuteSingleTool(registry, plan[i])

\* C26 amended: an item whose tool name is missing or empty gets the literal
\* error string and the registry is not called for it; a name of whitespace
\* only is handed to the registry like any other name; the other items are
\* executed as usual.
C26_EmptyNameNotInvoked ==
    \A i \in 1..N :
        status[i] = "done" =>
            /\ plan[i].tool_name = "" =>
                  futures[i] = Ret("NameMissing", "", NoKw) /\ calls[i] = NoCalls
            /\ (plan[i].tool_name = " " /\ plan[i].arguments.isMapping) =>
                  /\ calls[i].registry = 1
                  /\ futures[i] = ExecuteTool(registry, " ", plan[i].arguments.kw)
            /\ plan[i].tool_name # "" =>
                  futures[i] = IF plan[i].arguments.isMapping
                               THEN ExecuteTool(registry, plan[i].tool_name,
                                                plan[i].arguments.kw)
                               ELSE Exc("TypeError", plan[i].tool_name, NoKw)

C26_Witness ==
    /\ ExecFinished
    /\ epc = "returned"
    /\ N = 2
    /\ plan[1].tool_name = ""
    /\ plan[2].tool_name = "weather"
    /\ execution_results = <<Ret("NameMissing", "", NoKw),
                             Ret("text", "weather", "q" :> "v1")>>
    /\ calls = <<NoCalls, [registry |-> 1, handler |-> 1]>>

\* C27: every key of an item's argument map reaches the handler as a
\* keyword argument, unchanged; no key (raise_on_error in particular) is
\* taken by the registry or switches it from returning error strings to
\* raising.
C27_ArgumentsReachHandler ==
    \A i \in 1..N :
        (/\ status[i] = "done"
         /\ ~NameMissing(plan[i].tool_name)
         /\ plan[i].arguments.isMapping) =>
            /\ futures[i].kw = plan[i].arguments.kw
            /\ futures[i].t = "ret"

\* C29: in one execute_plan call the registry is invoked exactly once for
\* every item with a non-empty tool name, with that item's name and
\* arguments, no other tool is invoked, and the plan is left as it was.
C29_EachItemInvokedOnce ==
    /\ [](DOMAIN calls = 1..N)
    /\ [](\A i \in 1..N :
            /\ calls[i].registry <= 1
            /\ (status[i] = "done" /\ ~NameMissing(plan[i].tool_name)) =>
                  /\ calls[i].registry = 1
                  /\ futures[i].tool = plan[i].tool_name)
    /\ [][plan' = plan]_vars

\* an item whose task raises in the worker
ItemRaises(i) == ExecuteSingleTool(registry, plan[i]).t = "exc"

\* C30: when every tool invocation terminates, execute_plan is eventually
\* left, by return or (for an item whose task raises) by the exception, for
\* every plan size, also with more items than workers; every item gets a
\* worker and completes, and the call returns when no task raises.
C30_ExecutePlanTerminates ==
    /\ <>ExecFinished
    /\ \A i \in 1..MaxPlanLen : <>(i \in 1..N => status[i] = "done")
    /\ <>((\A i \in 1..N : ~ItemRaises(i)) => epc = "returned")

C30_Witness ==
    /\ epc = "collect"
    /\ N > MAX_WORKERS
    /\ Cardinality(Running) = MAX_WORKERS
    /\ status[N] = "queued"
    /\ execution_results = <<>>

\* the reply the round finally produced: the streamed fragments joined, or
\* the non-streaming answer when the stream raised
RoundAnswered == out.pc = "input" /\ out.attempts \in {<<"stream">>, <<"stream", "plain">>}

FinalReply ==
    IF out.attempts = <<"stream">>
    THEN Concat(out.stream.fragments)
    ELSE CHOOSE r \in ChatReplies : TRUE

\* C28: for a non-blank, non-exit input the streaming answer is tried first
\* and the non-streaming one only after it failed; the history then grows
\* by one user turn and one assistant turn holding the final reply, and it
\* is unchanged for a blank input and when both attempts fail.
C28_ChatHistoryGrowsByOneRound ==
    /\ out.attempts \in {<<>>, <<"stream">>, <<"stream", "plain">>,
                          <<"stream", "plain", "failed">>}
    /\ (out.attempts # <<>>) =>
          (out.user_input # <<>> /\ LowerText(out.user_input) \notin ExitWords)
    /\ (Len(out.attempts) >= 2) => out.stream.raises
    /\ IF RoundAnswered
       THEN history = out.before \o
                << Turn("user", TRUE, out.user_input),
                   Turn("assistant", TRUE, FinalReply) >>
       ELSE history = out.before

C28_Witness ==
    /\ RoundAnswered
    /\ out.attempts = <<"stream", "plain">>
    /\ Concat(out.stream.fragments) # <<>>
    /\ Len(history) = 4

====
